---- MODULE Spec2Model ----
(***************************************************************************)
(* Model of pkg/utils/archive.go of penwern/curate-preservation-core:      *)
(* signature sniffing (IsZipFile, Is7zFile, IsTarFile), the path guard     *)
(* (validatePath, safeJoin), the three extraction adapters (ExtractZip,    *)
(* Extract7z, ExtractTar), the dispatcher ExtractArchive and CompressToZip.*)
(*                                                                         *)
(* A Go string is a sequence of tokens: the separator "/" is one token and *)
(* every other token is a piece of a path element ("a", "..", ".", "pkg",  *)
(* ".tar", ".gz").  The path functions of path/filepath are computed on    *)
(* that representation the way the library computes them on bytes.         *)
(* An int64 too wide for a 32-bit integer (a size, a mode) is a pair       *)
(* [hi, lo] standing for hi * 2^30 + lo with 0 <= lo < 2^30.               *)
(***************************************************************************)
EXTENDS Integers, Sequences, FiniteSets, TLC

\* ------------------------------------------------------------------------
\* Strings
\* ------------------------------------------------------------------------

Sep == "/"

HasPrefix(s, p) == Len(p) <= Len(s) /\ SubSeq(s, 1, Len(p)) = p

HasSuffix(s, p) == Len(p) <= Len(s) /\ SubSeq(s, Len(s) - Len(p) + 1, Len(s)) = p

TrimSuffix(s, p) == IF HasSuffix(s, p) THEN SubSeq(s, 1, Len(s) - Len(p)) ELSE s

\* index of the last separator of s, 0 when there is none
LastSep(s) ==
    LET I == {i \in 1..Len(s) : s[i] = Sep}
    IN  IF I = {} THEN 0 ELSE CHOOSE i \in I : \A j \in I : j <= i

\* strings.Split(s, "/"): the elements between separators, empty ones kept
RECURSIVE Split(_)
Split(s) ==
    LET k == LastSep(s)
    IN  IF k = 0 THEN <<s>>
        ELSE Append(Split(SubSeq(s, 1, k - 1)), SubSeq(s, k + 1, Len(s)))

RECURSIVE JoinSep(_)
JoinSep(elems) ==
    IF Len(elems) = 0 THEN <<>>
    ELSE IF Len(elems) = 1 THEN elems[1]
    ELSE JoinSep(SubSeq(elems, 1, Len(elems) - 1)) \o <<Sep>> \o elems[Len(elems)]

\* ------------------------------------------------------------------------
\* path/filepath
\* ------------------------------------------------------------------------

IsAbs(s) == Len(s) > 0 /\ s[1] = Sep

\* what filepath.Clean does to its element stack st on reading element e
CleanPush(st, e, rooted) ==
    IF e = <<>> \/ e = <<".">> THEN st
    ELSE IF e = <<"..">> THEN
        IF Len(st) > 0 /\ st[Len(st)] # <<"..">> THEN SubSeq(st, 1, Len(st) - 1)
        ELSE IF rooted THEN st
        ELSE Append(st, e)
    ELSE Append(st, e)

\* the element stack filepath.Clean ends with after the elements elems
RECURSIVE CleanStack(_, _)
CleanStack(elems, rooted) ==
    IF Len(elems) = 0 THEN <<>>
    ELSE CHOOSE r \in { CleanPush(st, elems[Len(elems)], rooted) :
                        st \in {CleanStack(SubSeq(elems, 1, Len(elems) - 1), rooted)} } : TRUE

\* the cleaned path as a string: the root, the elements, or "." for nothing
Rendered(rooted, body) ==
    IF rooted THEN <<Sep>> \o body
    ELSE IF Len(body) = 0 THEN <<".">>
    ELSE body

\* filepath.Clean
Clean(s) ==
    IF Len(s) = 0 THEN <<".">>
    ELSE Rendered(IsAbs(s), JoinSep(CleanStack(Split(s), IsAbs(s))))

\* filepath.Join of two elements: empty elements are dropped, the rest joined and cleaned
Join(a, b) ==
    IF Len(a) = 0 /\ Len(b) = 0 THEN <<>>
    ELSE IF Len(a) = 0 THEN Clean(b)
    ELSE IF Len(b) = 0 THEN Clean(a)
    ELSE Clean(a \o <<Sep>> \o b)

\* filepath.Dir: everything up to the last separator, cleaned
Dir(s) == Clean(SubSeq(s, 1, LastSep(s)))

RECURSIVE TrimSeps(_)
TrimSeps(s) == IF Len(s) > 0 /\ s[Len(s)] = Sep THEN TrimSeps(SubSeq(s, 1, Len(s) - 1)) ELSE s

\* filepath.Base
Base(s) ==
    IF Len(s) = 0 THEN <<".">>
    ELSE LET t == TrimSeps(s)
         IN  IF Len(t) = 0 THEN <<Sep>> ELSE SubSeq(t, LastSep(t) + 1, Len(t))

ExtTokens == {".zip", ".7z", ".tar", ".gz", ".tgz", ".bin"}

\* filepath.Ext: the suffix of the last element that begins at its final dot
Ext(s) == IF Len(s) > 0 /\ s[Len(s)] \in ExtTokens THEN <<s[Len(s)]>> ELSE <<>>

\* ------------------------------------------------------------------------
\* Wide integers (int64 values beyond the 32-bit integer range)
\* ------------------------------------------------------------------------

GiB == 1073741824

W(h, l) == [hi |-> h, lo |-> l]

WLess(a, b) == a.hi < b.hi \/ (a.hi = b.hi /\ a.lo < b.lo)

WMin(a, b) == IF WLess(b, a) THEN b ELSE a

\* ------------------------------------------------------------------------
\* Files, modes and the file system
\* ------------------------------------------------------------------------

maxExtractFileSizeGiB == 5

\* const maxExtractFileSize = 5 << 30
maxExtractFileSize == W(maxExtractFileSizeGiB, 0)

\* the permission bits the code itself asks for
Perm750 == 488
Perm755 == 493
Perm666 == 438
Perm777 == 511

\* fs.ModeDir is bit 31 of an fs.FileMode
ModeDir == W(2, 0)

\* sanitizeFileMode: a mode outside [0, 0o777] becomes 0o755
sanitizeFileMode(mode) ==
    IF WLess(mode, W(0, 0)) \/ WLess(W(0, Perm777), mode) THEN W(0, Perm755) ELSE mode

\* the content of a file: which byte stream it is a prefix of, and how long
Content(i, n) == [id |-> i, size |-> n]

NoData == Content(0, W(0, 0))

LimitReader_Unlimited(c, n) == c

\* io.LimitReader(r, n) drained by io.Copy: the first min(size, n) bytes
LimitReader(c, n) == Content(c.id, WMin(c.size, n))

DirNode(m) == [kind |-> "dir", data |-> NoData, mode |-> m]

FileNode(c, m) == [kind |-> "file", data |-> c, mode |-> m]

\* the working directory relative paths are resolved against
Cwd == <<Sep, "w", Sep, "c">>

\* the absolute path the kernel resolves p to
Abs(p) == IF IsAbs(p) THEN Clean(p) ELSE Join(Cwd, p)

RECURSIVE Ancestors(_)
Ancestors(key) == IF key = <<Sep>> THEN {} ELSE {Dir(key)} \cup Ancestors(Dir(key))

\* key lies strictly below root (both absolute and clean)
Below(key, root) == root \in Ancestors(key)

FileAncestor(f, key) == \E a \in Ancestors(key) : a \in DOMAIN f /\ f[a].kind = "file"

Put(f, key, node) == [k \in DOMAIN f \cup {key} |-> IF k = key THEN node ELSE f[k]]

Sys(f, e) == [fs |-> f, err |-> e]

\* The system calls below take the resolved path: a caller passes Abs(p).

\* os.Stat: "" when the path exists, else the errno
Stat(f, key) ==
    IF key \in DOMAIN f THEN ""
    ELSE IF FileAncestor(f, key) THEN "ENOTDIR"
    ELSE "ENOENT"

IsNotExist(e) == e = "ENOENT"

IsExist(e) == e = "EEXIST"

\* os.Mkdir(p, mode)
Mkdir(f, key, mode) ==
    IF key \in DOMAIN f THEN Sys(f, "EEXIST")
    ELSE IF FileAncestor(f, key) THEN Sys(f, "ENOTDIR")
    ELSE IF Dir(key) \notin DOMAIN f THEN Sys(f, "ENOENT")
    ELSE Sys(Put(f, key, DirNode(mode)), "")

\* the directories os.MkdirAll(p, mode) has to create
Missing(f, key) == {k \in Ancestors(key) \cup {key} : k \notin DOMAIN f}

PutAll(f, keys, node) == [k \in DOMAIN f \cup keys |-> IF k \in keys THEN node ELSE f[k]]

\* os.MkdirAll(p, mode)
MkdirAll(f, key, mode) ==
    IF key \in DOMAIN f
    THEN (IF f[key].kind = "dir" THEN Sys(f, "") ELSE Sys(f, "ENOTDIR"))
    ELSE IF FileAncestor(f, key) THEN Sys(f, "ENOTDIR")
    ELSE Sys(PutAll(f, Missing(f, key), DirNode(mode)), "")

\* os.Create(p) / os.OpenFile(p, O_CREATE|O_WRONLY|O_TRUNC, mode): the file is
\* created or truncated; an existing file keeps the mode it has
OpenFile(f, key, mode) ==
    IF key \in DOMAIN f /\ f[key].kind = "dir" THEN Sys(f, "EISDIR")
    ELSE IF FileAncestor(f, key) THEN Sys(f, "ENOTDIR")
    ELSE IF Dir(key) \notin DOMAIN f THEN Sys(f, "ENOENT")
    ELSE Sys(Put(f, key, FileNode(NoData, IF key \in DOMAIN f THEN f[key].mode ELSE mode)), "")

\* io.Copy(outFile, r): the bytes read from r become the file's content
Copy(f, key, c) == Put(f, key, FileNode(c, f[key].mode))

\* ------------------------------------------------------------------------
\* Source files and the detection functions
\* ------------------------------------------------------------------------

\* A source file: its path, what os.Open finds there ("missing", "dir" or
\* "file"), its leading bytes, and what the archive codecs make of it: the
\* container format it really has ("zip", "7z", "tar", "targz" or "none")
\* and the entries the codec of that format yields, in storage order.
SrcFile(p, k, b, c, es) == [path |-> p, kind |-> k, bytes |-> b, container |-> c, entries |-> es]

\* os.Open(path) for reading: "" on success
Open(file) == IF file.kind = "missing" THEN "ENOENT" ELSE ""

\* file.Read(buf) with len(buf) = n at offset off: the count, the buffer
\* (bytes not read stay zero) and the error (io.EOF at or past the end)
Read(file, off, n) ==
    LET avail == IF Len(file.bytes) > off THEN Len(file.bytes) - off ELSE 0
        got   == IF avail < n THEN avail ELSE n
    IN  IF file.kind = "dir" THEN [n |-> 0, buf |-> [i \in 1..n |-> 0], err |-> "EISDIR"]
        ELSE [n   |-> got,
              buf |-> [i \in 1..n |-> IF i <= got THEN file.bytes[off + i] ELSE 0],
              err |-> IF got = 0 THEN "EOF" ELSE ""]

ZipSignature == <<80, 75, 3, 4>>

SevenZipSignature == <<55, 122, 188, 175, 39, 28>>

\* "ustar"
TarMagic == <<117, 115, 116, 97, 114>>

TarMagicOffset == 257

TarMagicBuf == 6

\* IsZipFile
IsZipFile(file) ==
    /\ Open(file) = ""
    /\ Read(file, 0, 4).err = ""
    /\ Read(file, 0, 4).buf = ZipSignature

\* Is7zFile
Is7zFile(file) ==
    /\ Open(file) = ""
    /\ Read(file, 0, 6).err = ""
    /\ Read(file, 0, 6).buf = SevenZipSignature

\* IsTarFile without the n < 6 test of line 120
IsTarFile_NoLen(file) ==
    /\ Open(file) = ""
    /\ LET r == Read(file, TarMagicOffset, TarMagicBuf)
       IN  /\ r.err = ""
           /\ HasPrefix(r.buf, TarMagic)

\* IsTarFile: Seek(257) succeeds on a regular file of any length
IsTarFile(file) ==
    /\ Open(file) = ""
    /\ LET r == Read(file, TarMagicOffset, TarMagicBuf)
       IN  /\ r.err = ""
           /\ r.n >= TarMagicBuf
           /\ HasPrefix(r.buf, TarMagic)

\* ------------------------------------------------------------------------
\* Archive entries and the leading bytes of each container format
\* ------------------------------------------------------------------------

\* What a codec yields for one entry: the stored name, the entry type
\* ("dir", "reg", or "sym" for any other tar type flag), the mode bits and,
\* for a file, the byte stream.
Entry(n, t, m, d) == [name |-> n, type |-> t, mode |-> m, data |-> d]

TokenBytes(t) ==
    CASE t = Sep  -> <<47>>
      [] t = "."  -> <<46>>
      [] t = ".." -> <<46, 46>>
      [] t = "a"  -> <<97>>
      [] t = "b"  -> <<98>>
      [] t = "c"  -> <<99>>
      [] t = "e"  -> <<101>>
      [] t = "x"  -> <<120>>
      [] OTHER    -> <<63>>

RECURSIVE NameBytes(_)
NameBytes(s) == IF Len(s) = 0 THEN <<>> ELSE TokenBytes(s[1]) \o NameBytes(Tail(s))

\* how many leading bytes of a source file are kept
HeadLen == 300

Zeros(n) == [i \in 1..n |-> 0]

Leading(b) == IF Len(b) > HeadLen THEN SubSeq(b, 1, HeadLen) ELSE b

\* a ZIP file starts with the local header of its first entry, or, with no
\* entry at all, with the end-of-central-directory record (50 4B 05 06)
ZipBytes(es) ==
    IF Len(es) = 0 THEN <<80, 75, 5, 6>> \o Zeros(18)
    ELSE Leading(<<80, 75, 3, 4>> \o Zeros(22) \o NameBytes(es[1].name))

\* a 7z file starts with its 32-byte signature header
SevenZipBytes(es) == SevenZipSignature \o Zeros(26)

\* a POSIX tar file starts with the header block of its first entry: the
\* name at offset 0, "ustar\0" at offset 257; with no entry it is all zero
TarBytes(es) ==
    IF Len(es) = 0 THEN Zeros(HeadLen)
    ELSE LET nb == NameBytes(es[1].name)
         IN  Leading(nb \o Zeros(TarMagicOffset - Len(nb)) \o TarMagic \o <<0, 48, 48>> \o Zeros(HeadLen))

\* a gzip stream: the 10-byte member header (1F 8B 08 ...), then the deflate
\* data, here one stored block (5-byte block header, then the bytes as they are)
GzipBytes(b) ==
    LET n == Len(b)
    IN  Leading(<<31, 139, 8, 0, 0, 0, 0, 0, 0, 255>>
                \o <<1, n % 256, n \div 256, 255 - (n % 256), 255 - (n \div 256)>> \o b)

\* Source archives live in /in and the ZIP file CompressToZip writes in /out:
\* directories that exist and are kept apart from the file system fs, which
\* holds the destination side and the tree CompressToZip reads.
SrcDir == <<Sep, "in", Sep>>

ZipFile(es) == SrcFile(SrcDir \o <<"pkg", ".zip">>, "file", ZipBytes(es), "zip", es)

SevenZipFile(es) == SrcFile(SrcDir \o <<"pkg", ".7z">>, "file", SevenZipBytes(es), "7z", es)

TarFile(es) == SrcFile(SrcDir \o <<"pkg", ".tar">>, "file", TarBytes(es), "tar", es)

TarGzFile(es, ext) == SrcFile(SrcDir \o <<"pkg", ".tar">> \o ext, "file", GzipBytes(TarBytes(es)), "targz", es)

RawFile(b) == SrcFile(SrcDir \o <<"blob", ".bin">>, "file", b, "none", <<>>)

\* ------------------------------------------------------------------------
\* Helper functions
\* ------------------------------------------------------------------------

\* validatePath: nil (the empty error) when the cleaned target begins with
\* the cleaned destination followed by a separator
validatePath(target, destDir) ==
    LET cleanDest == Clean(destDir) \o <<Sep>>
    IN  IF ~HasPrefix(Clean(target), cleanDest) THEN <<"illegal file path">> ELSE <<>>

\* safeJoin: the joined path, or the error of validatePath
Checked(filePath, e) == IF e # <<>> THEN [path |-> <<>>, err |-> e] ELSE [path |-> filePath, err |-> <<>>]

Validated(filePath, destDir) == Checked(filePath, validatePath(filePath, destDir))

\* safeJoin without the call of validatePath
safeJoin_Unchecked(destDir, fileName) ==
    [path |-> Join(Clean(destDir) \o <<Sep>>, fileName), err |-> <<>>]

safeJoin(destDir, fileName) ==
    Validated(Join(Clean(destDir) \o <<Sep>>, fileName), Clean(destDir) \o <<Sep>>)

\* CreateDir is defined outside archive.go.  Two readings of "create the
\* directory if it is missing" are kept: all = TRUE creates missing ancestors
\* too (os.MkdirAll), all = FALSE creates the one directory (os.Mkdir) when
\* os.Stat finds nothing there.
CreateDir(f, key, all) ==
    IF all THEN MkdirAll(f, key, W(0, Perm750))
    ELSE IF IsNotExist(Stat(f, key)) THEN Mkdir(f, key, W(0, Perm750))
    ELSE Sys(f, "")

\* one create call as the file system saw it: the function, the resolved
\* path, the mode passed, whether that mode came from the archive entry, and
\* the paths the call created or opened for writing
SysCall(fn, key, m, em, made) ==
    [fn |-> fn, path |-> key, mode |-> m, entryMode |-> em, made |-> made]

Made(f, g) == DOMAIN g \ DOMAIN f

Res(f, e, cs) == [fs |-> f, err |-> e, calls |-> cs]

\* an error under the messages that wrap it; nil stays nil
Wrapped(msgs, e) == IF e = "" THEN <<>> ELSE Append(msgs, e)

\* filepath.Join(cleanDest, filepath.Base(strings.TrimSuffix(src, filepath.Ext(src))))
ExtractedPath(destSlash, srcPath) == Join(destSlash, Base(TrimSuffix(srcPath, Ext(srcPath))))

\* ------------------------------------------------------------------------
\* The body of each adapter's loop, for one entry
\* ------------------------------------------------------------------------

\* the parent directory is made when os.Stat does not find it
\* (Extract7z lines 257-262, ExtractTar lines 354-359)
EnsureParent(f, key) ==
    IF IsNotExist(Stat(f, key)) THEN Mkdir(f, key, W(0, Perm750)) ELSE Sys(f, "")

EnsureParentCalls(f, key, r) ==
    IF IsNotExist(Stat(f, key)) THEN <<SysCall("Mkdir", key, W(0, Perm750), FALSE, Made(f, r.fs))>> ELSE <<>>

\* the copy under the cap, once the output file is open (lines 210, 283, 370)
Copied(r, key, data, msgs, cs) ==
    IF r.err # "" THEN Res(r.fs, Wrapped(msgs, r.err), cs)
    ELSE Res(Copy(r.fs, key, LimitReader(data, maxExtractFileSize)), <<>>, cs)

\* the output file is created with mode m (lines 192, 274, 361)
Created(r, key, m, em, fn, cs) ==
    Append(cs, SysCall(fn, key, m, em, IF r.err = "" THEN {key} ELSE {}))

\* a file entry: the parent was handled with result r1 and calls cs
WriteFile(r1, cs, key, m, em, fn, data, parentMsgs, createMsgs) ==
    IF r1.err # "" THEN Res(r1.fs, Wrapped(parentMsgs, r1.err), cs)
    ELSE Copied(OpenFile(r1.fs, key, m), key, data, createMsgs,
                Created(OpenFile(r1.fs, key, m), key, m, em, fn, cs))

\* a directory entry: the create call ended with r
MadeDir(f, r, key, m, em, fn, msgs, tolerant) ==
    Res(r.fs,
        IF tolerant /\ IsExist(r.err) THEN <<>> ELSE Wrapped(msgs, r.err),
        <<SysCall(fn, key, m, em, Made(f, r.fs))>>)

\* ExtractZip, lines 180-212
ZipWrite(f, key, e, all) ==
    IF e.type = "dir"
    THEN MadeDir(f, CreateDir(f, key, all), key, W(0, Perm750), FALSE, "CreateDir",
                 <<"failed to create directory">>, FALSE)
    ELSE WriteFile(CreateDir(f, Dir(key), all),
                   <<SysCall("CreateDir", Dir(key), W(0, Perm750), FALSE,
                             Made(f, CreateDir(f, Dir(key), all).fs))>>,
                   key, W(0, Perm666), FALSE, "Create", e.data,
                   <<"failed to create parent directories">>, <<"failed to create file">>)

\* ExtractZip, lines 176-179, then the rest of the loop body
ZipJoined(f, sj, e, all) ==
    IF sj.err # <<>> THEN Res(f, <<"invalid file path">> \o sj.err, <<>>)
    ELSE ZipWrite(f, Abs(sj.path), e, all)

ZipEntry(f, destSlash, e, all) == ZipJoined(f, safeJoin(destSlash, e.name), e, all)

\* Extract7z, lines 250-285
SevenZipWrite(f, key, e) ==
    IF e.type = "dir"
    THEN MadeDir(f, Mkdir(f, key, e.mode), key, e.mode, TRUE, "Mkdir",
                 <<"creating directory">>, TRUE)
    ELSE WriteFile(EnsureParent(f, Dir(key)),
                   EnsureParentCalls(f, Dir(key), EnsureParent(f, Dir(key))),
                   key, sanitizeFileMode(e.mode), TRUE, "OpenFile", e.data,
                   <<"creating parent directories">>, <<"creating file">>)

\* Extract7z, lines 246-249, then the rest of the loop body
SevenZipJoined(f, sj, e) ==
    IF sj.err # <<>> THEN Res(f, sj.err, <<>>)
    ELSE SevenZipWrite(f, Abs(sj.path), e)

SevenZipEntry(f, destSlash, e) == SevenZipJoined(f, safeJoin(destSlash, e.name), e)

\* ExtractTar's switch with a default case that writes the entry as a file
TarWrite_OtherAsFile(f, key, e) ==
    IF e.type = "dir"
    THEN MadeDir(f, Mkdir(f, key, sanitizeFileMode(e.mode)), key, sanitizeFileMode(e.mode), TRUE,
                 "Mkdir", <<>>, TRUE)
    ELSE WriteFile(EnsureParent(f, Dir(key)),
                   EnsureParentCalls(f, Dir(key), EnsureParent(f, Dir(key))),
                   key, W(0, Perm666), FALSE, "Create", e.data, <<>>, <<>>)

\* ExtractTar, lines 348-373
TarWrite(f, key, e) ==
    IF e.type = "dir"
    THEN MadeDir(f, Mkdir(f, key, sanitizeFileMode(e.mode)), key, sanitizeFileMode(e.mode), TRUE,
                 "Mkdir", <<>>, TRUE)
    ELSE IF e.type = "reg"
    THEN WriteFile(EnsureParent(f, Dir(key)),
                   EnsureParentCalls(f, Dir(key), EnsureParent(f, Dir(key))),
                   key, W(0, Perm666), FALSE, "Create", e.data, <<>>, <<>>)
    ELSE Res(f, <<>>, <<>>)

\* ExtractTar, lines 343-346, then the rest of the loop body
TarJoined(f, sj, e) ==
    IF sj.err # <<>> THEN Res(f, sj.err, <<>>)
    ELSE TarWrite(f, Abs(sj.path), e)

TarEntry(f, destSlash, e) == TarJoined(f, safeJoin(destSlash, e.name), e)

\* ------------------------------------------------------------------------
\* State
\* ------------------------------------------------------------------------

VARIABLES
    op,         \* the exported function that was called
    src,        \* the source file (ExtractX, IsXFile) or the ZIP file being written
    dest,       \* the destination directory as the caller gave it
    all,        \* which reading of CreateDir is in force
    fs,         \* the file system: absolute clean path -> node
    cancelled,  \* ctx.Done() is closed
    pc,         \* "call", "start", "loop", "walk", "done"
    adapter,    \* "zip", "7z", "tar" once an adapter runs, "" before
    idx,        \* index of the next entry of the loop
    err,        \* the returned error, outermost message first; <<>> is nil
    ret,        \* the returned path; <<>> is ""
    named,      \* the source path an error of ExtractArchive's own names; <<>> otherwise
    match,      \* the boolean an IsXFile call returned
    calls,      \* every create call made so far, in order
    queue       \* CompressToZip: the paths filepath.Walk has still to visit

vars == <<op, src, dest, all, fs, cancelled, pc, adapter, idx, err, ret, named, match, calls, queue>>

\* cleanDest := filepath.Clean(dest) + string(os.PathSeparator)
cleanDest == Clean(dest) \o <<Sep>>

\* ctx.Err() once the context is cancelled
Canceled == <<"context canceled">>

\* ExtractArchive wraps an adapter's error with the format (lines 391-402)
Wrap(e) ==
    IF op = "ExtractArchive" /\ e # <<>>
    THEN <<CASE adapter = "7z" -> "error extracting 7zip"
             [] adapter = "tar" -> "error extracting tar"
             [] OTHER -> "error extracting zip">> \o e
    ELSE e

\* the function returns ("", e)
Fail(e) ==
    /\ pc' = "done"
    /\ err' = Wrap(e)
    /\ ret' = <<>>
    /\ named' = <<>>

\* the adapter returns (extractedPath, nil); ExtractArchive checks the path (lines 408-411)
Succeed ==
    LET path  == ExtractedPath(cleanDest, src.path)
        empty == op = "ExtractArchive" /\ path = <<>>
    IN  /\ pc' = "done"
        /\ ret' = path
        /\ err' = IF empty THEN <<"error extracting archive">> ELSE <<>>
        /\ named' = IF empty THEN src.path ELSE <<>>

\* ------------------------------------------------------------------------
\* The archive codecs, as far as the adapters use them
\* ------------------------------------------------------------------------

\* zip.OpenReader(src) succeeds on a ZIP file
ZipOpens(file) == file.kind = "file" /\ file.container = "zip"

\* sevenzip.OpenReader(src) succeeds on a 7z file
SevenZipOpens(file) == file.kind = "file" /\ file.container = "7z"

\* strings.HasSuffix(src, ".gz") || strings.HasSuffix(src, ".tgz")
GzSuffix(path) == HasSuffix(path, <<".gz">>) \/ HasSuffix(path, <<".tgz">>)

\* gzip.NewReader(file) reads the member header: 1F 8B, method 8
GzipOpens(file) ==
    /\ file.kind = "file"
    /\ Len(file.bytes) >= 10
    /\ SubSeq(file.bytes, 1, 3) = <<31, 139, 8>>

\* the stream handed to tar.NewReader is a tar stream; an empty file is the
\* empty stream, which tarReader.Next ends with io.EOF at once
TarReads(file) ==
    /\ file.kind = "file"
    /\ IF GzSuffix(file.path) THEN file.container = "targz"
       ELSE file.container = "tar" \/ Len(file.bytes) = 0

\* why a codec cannot read the file: it is missing, it is a directory, or
\* its bytes are not the format's (the codec's own message)
Unreadable(file, message) ==
    IF file.kind = "missing" THEN "ENOENT"
    ELSE IF file.kind = "dir" THEN "EISDIR"
    ELSE message

\* the error of tarReader.Next on a stream that is no tar stream: a file
\* shorter than one 512-byte block ends inside the block
TarHeaderError(file) ==
    Unreadable(file, IF Len(file.bytes) < HeadLen THEN "unexpected EOF"
                     ELSE "archive/tar: invalid tar header")

\* ------------------------------------------------------------------------
\* Actions
\* ------------------------------------------------------------------------

\* the context is cancelled while the call runs
Cancel ==
    /\ pc # "done"
    /\ ~cancelled
    /\ cancelled' = TRUE
    /\ UNCHANGED <<op, src, dest, all, fs, pc, adapter, idx, err, ret, named, match, calls, queue>>

\* IsZipFile(src), Is7zFile(src) or IsTarFile(src) called on its own
Sniff ==
    /\ pc = "call"
    /\ op \in {"IsZipFile", "Is7zFile", "IsTarFile"}
    /\ match' = CASE op = "IsZipFile" -> IsZipFile(src)
                  [] op = "Is7zFile"  -> Is7zFile(src)
                  [] OTHER            -> IsTarFile(src)
    /\ pc' = "done"
    /\ UNCHANGED <<op, src, dest, all, fs, cancelled, adapter, idx, err, ret, named, calls, queue>>

\* safeJoin(dest, fileName) called on its own; src.path carries fileName
SafeJoinCall ==
    /\ pc = "call"
    /\ op = "safeJoin"
    /\ ret' = safeJoin(dest, src.path).path
    /\ err' = safeJoin(dest, src.path).err
    /\ pc' = "done"
    /\ UNCHANGED <<op, src, dest, all, fs, cancelled, adapter, idx, named, match, calls, queue>>

\* the switch of ExtractArchive with the ZIP case first
Selected_ZipFirst(file) ==
    IF IsZipFile(file) THEN "zip"
    ELSE IF Is7zFile(file) THEN "7z"
    ELSE IF IsTarFile(file) THEN "tar"
    ELSE ""

\* the switch of ExtractArchive with the TAR case first
Selected_TarFirst(file) ==
    IF IsTarFile(file) THEN "tar"
    ELSE IF Is7zFile(file) THEN "7z"
    ELSE IF IsZipFile(file) THEN "zip"
    ELSE ""

\* the adapter the switch of ExtractArchive selects, "" for the default case
Selected(file) ==
    IF Is7zFile(file) THEN "7z"
    ELSE IF IsTarFile(file) THEN "tar"
    ELSE IF IsZipFile(file) THEN "zip"
    ELSE ""

\* ExtractArchive, lines 388-406: the switch
Dispatch ==
    /\ pc = "call"
    /\ op = "ExtractArchive"
    /\ adapter' = Selected(src)
    /\ IF Selected(src) = ""
       THEN /\ pc' = "done"
            /\ err' = <<"archive is not in a supported format">>
            /\ named' = src.path
            /\ ret' = <<>>
       ELSE /\ pc' = "start"
            /\ UNCHANGED <<err, ret, named>>
    /\ UNCHANGED <<op, src, dest, all, fs, cancelled, idx, match, calls, queue>>

\* ExtractZip, Extract7z or ExtractTar called directly
Direct ==
    /\ pc = "call"
    /\ op \in {"ExtractZip", "Extract7z", "ExtractTar"}
    /\ adapter' = CASE op = "ExtractZip" -> "zip" [] op = "Extract7z" -> "7z" [] OTHER -> "tar"
    /\ pc' = "start"
    /\ UNCHANGED <<op, src, dest, all, fs, cancelled, idx, err, ret, named, match, calls, queue>>

\* the destination was ensured with result r: enter the loop, or return the error
Started(r) ==
    /\ fs' = r.fs
    /\ calls' = calls \o r.calls
    /\ IF r.err # <<>>
       THEN Fail(r.err)
       ELSE pc' = "loop" /\ UNCHANGED <<err, ret, named>>

\* ExtractZip, lines 154-168
ZipStart ==
    /\ pc = "start" /\ adapter = "zip"
    /\ IF ~ZipOpens(src)
       THEN Fail(<<"failed to open zip file", Unreadable(src, "zip: not a valid zip file")>>) /\ UNCHANGED <<fs, calls>>
       ELSE Started(MadeDir(fs, CreateDir(fs, Abs(dest), all), Abs(dest), W(0, Perm750), FALSE,
                            "CreateDir", <<"failed to create destination directory">>, FALSE))
    /\ UNCHANGED <<op, src, dest, all, cancelled, adapter, idx, match, queue>>

\* ensure the destination exists (Extract7z lines 233-237, ExtractTar lines 323-327)
EnsureDest(f, key, msgs) ==
    IF IsNotExist(Stat(f, key))
    THEN MadeDir(f, Mkdir(f, key, W(0, Perm750)), key, W(0, Perm750), FALSE, "Mkdir", msgs, FALSE)
    ELSE Res(f, <<>>, <<>>)

\* Extract7z, lines 222-238
SevenZipStart ==
    /\ pc = "start" /\ adapter = "7z"
    /\ IF ~SevenZipOpens(src)
       THEN Fail(<<"opening archive", Unreadable(src, "sevenzip: not a valid 7-zip file")>>) /\ UNCHANGED <<fs, calls>>
       ELSE Started(EnsureDest(fs, Abs(dest), <<"creating destination directory">>))
    /\ UNCHANGED <<op, src, dest, all, cancelled, adapter, idx, match, queue>>

\* ExtractTar, lines 296-328
TarStart ==
    /\ pc = "start" /\ adapter = "tar"
    /\ IF Open(src) # ""
       THEN Fail(<<Open(src)>>) /\ UNCHANGED <<fs, calls>>
       ELSE IF GzSuffix(src.path) /\ ~GzipOpens(src)
       THEN Fail(<<"gzip: invalid header">>) /\ UNCHANGED <<fs, calls>>
       ELSE Started(EnsureDest(fs, Abs(dest), <<>>))
    /\ UNCHANGED <<op, src, dest, all, cancelled, adapter, idx, match, queue>>

\* the outcome of one loop body
Advance(r) ==
    /\ fs' = r.fs
    /\ calls' = calls \o r.calls
    /\ IF r.err # <<>>
       THEN Fail(r.err) /\ UNCHANGED idx
       ELSE idx' = idx + 1 /\ UNCHANGED <<pc, err, ret, named>>

\* ExtractZip's loop without the select on ctx.Done() of lines 171-175
ZipStep_NoCtx ==
    /\ pc = "loop" /\ adapter = "zip"
    /\ idx <= Len(src.entries)
    /\ Advance(ZipEntry(fs, cleanDest, src.entries[idx], all))
    /\ UNCHANGED <<op, src, dest, all, cancelled, adapter, match, queue>>

\* ExtractZip, lines 170-213: one iteration
ZipStep ==
    /\ pc = "loop" /\ adapter = "zip"
    /\ idx <= Len(src.entries)
    /\ IF cancelled
       THEN Fail(Canceled) /\ UNCHANGED <<fs, calls, idx>>
       ELSE Advance(ZipEntry(fs, cleanDest, src.entries[idx], all))
    /\ UNCHANGED <<op, src, dest, all, cancelled, adapter, match, queue>>

\* ExtractZip, lines 215-217
ZipReturn ==
    /\ pc = "loop" /\ adapter = "zip"
    /\ idx > Len(src.entries)
    /\ Succeed
    /\ UNCHANGED <<op, src, dest, all, fs, cancelled, adapter, idx, match, calls, queue>>

\* Extract7z, lines 240-286: one iteration
SevenZipStep ==
    /\ pc = "loop" /\ adapter = "7z"
    /\ idx <= Len(src.entries)
    /\ IF cancelled
       THEN Fail(Canceled) /\ UNCHANGED <<fs, calls, idx>>
       ELSE Advance(SevenZipEntry(fs, cleanDest, src.entries[idx]))
    /\ UNCHANGED <<op, src, dest, all, cancelled, adapter, match, queue>>

\* Extract7z, lines 288-290
SevenZipReturn ==
    /\ pc = "loop" /\ adapter = "7z"
    /\ idx > Len(src.entries)
    /\ Succeed
    /\ UNCHANGED <<op, src, dest, all, fs, cancelled, adapter, idx, match, calls, queue>>

\* ExtractTar, lines 330-378: one iteration, or the return at io.EOF
TarStep ==
    /\ pc = "loop" /\ adapter = "tar"
    /\ IF cancelled
       THEN Fail(Canceled) /\ UNCHANGED <<fs, calls, idx>>
       ELSE IF ~TarReads(src)
       THEN Fail(<<TarHeaderError(src)>>) /\ UNCHANGED <<fs, calls, idx>>
       ELSE IF idx > Len(src.entries)
       THEN Succeed /\ UNCHANGED <<fs, calls, idx>>
       ELSE Advance(TarEntry(fs, cleanDest, src.entries[idx]))
    /\ UNCHANGED <<op, src, dest, all, cancelled, adapter, match, queue>>

\* ------------------------------------------------------------------------
\* CompressToZip
\* ------------------------------------------------------------------------

\* the directory CompressToZip is given and the ZIP file it writes
TreeRoot == <<Sep, "s">>

ZipPath == <<Sep, "out", Sep, "s", ".zip">>

\* byte-wise string order, the order filepath.Walk visits the names of a directory in
RECURSIVE BytesLess(_, _)
BytesLess(x, y) ==
    IF Len(y) = 0 THEN FALSE
    ELSE IF Len(x) = 0 THEN TRUE
    ELSE IF x[1] # y[1] THEN x[1] < y[1]
    ELSE BytesLess(Tail(x), Tail(y))

Children(f, p) == {k \in DOMAIN f : k # p /\ Dir(k) = p}

RECURSIVE WalkList(_, _, _)
RECURSIVE WalkOrder(_, _)
\* the walk of the children kids of a directory, least name first
WalkList(f, kids, acc) ==
    IF kids = {} THEN acc
    ELSE LET k == CHOOSE c \in kids :
                      \A d \in kids \ {c} : BytesLess(NameBytes(Base(c)), NameBytes(Base(d)))
         IN  WalkList(f, kids \ {k}, acc \o WalkOrder(f, k))

\* filepath.Walk(root, fn): the paths in the order fn is called on them
WalkOrder(f, p) ==
    IF p \notin DOMAIN f \/ f[p].kind # "dir" THEN <<p>>
    ELSE <<p>> \o WalkList(f, Children(f, p), <<>>)

\* filepath.Rel(base, target) for a target at or below base
Rel(base, target) ==
    IF target = base THEN <<".">> ELSE SubSeq(target, Len(base) + 2, Len(target))

\* the entry CompressToZip writes for path (lines 458-469); the data follows in Copied
Header(f, path) ==
    LET relPath == Rel(TreeRoot, path)
    IN  IF f[path].kind = "dir"
        THEN Entry(relPath \o <<Sep>>, "dir", f[path].mode, NoData)
        ELSE Entry(relPath, "reg", f[path].mode, NoData)

WithEntries(file, es) == SrcFile(file.path, "file", ZipBytes(es), "zip", es)

\* CompressToZip, lines 421-438: create the ZIP file, start the walk
CompressStart ==
    /\ pc = "call" /\ op = "CompressToZip"
    /\ src' = WithEntries(src, <<>>)
    /\ queue' = WalkOrder(fs, TreeRoot)
    /\ pc' = "walk"
    /\ UNCHANGED <<op, dest, all, fs, cancelled, adapter, idx, err, ret, named, match, calls>>

\* the walk function up to CreateHeader (lines 439-472), or the return of filepath.Walk
WalkVisit ==
    /\ pc = "walk"
    /\ IF Len(queue) = 0
       THEN pc' = "done" /\ UNCHANGED <<src, queue, err>>
       ELSE LET path == queue[1]
            IN  IF cancelled
                THEN pc' = "done" /\ err' = Canceled /\ UNCHANGED <<src, queue>>
                ELSE IF path \notin DOMAIN fs
                THEN pc' = "done" /\ err' = <<"walking path", "ENOENT">> /\ UNCHANGED <<src, queue>>
                ELSE IF Rel(TreeRoot, path) = <<".">>
                THEN queue' = Tail(queue) /\ UNCHANGED <<src, pc, err>>
                ELSE /\ src' = WithEntries(src, Append(src.entries, Header(fs, path)))
                     /\ IF fs[path].kind = "dir"
                        THEN queue' = Tail(queue) /\ UNCHANGED <<pc, err>>
                        ELSE pc' = "copy" /\ UNCHANGED <<queue, err>>
    /\ UNCHANGED <<op, dest, all, fs, cancelled, adapter, idx, ret, named, match, calls>>

\* the walk function from the second ctx check on (lines 485-495)
WalkCopy ==
    /\ pc = "copy"
    /\ IF cancelled
       THEN pc' = "done" /\ err' = Canceled /\ UNCHANGED <<src, queue>>
       ELSE LET n  == Len(src.entries)
                e  == src.entries[n]
                es == [src.entries EXCEPT ![n] = Entry(e.name, e.type, e.mode, fs[queue[1]].data)]
            IN  /\ src' = WithEntries(src, es)
                /\ queue' = Tail(queue)
                /\ pc' = "walk"
                /\ UNCHANGED err
    /\ UNCHANGED <<op, dest, all, fs, cancelled, adapter, idx, ret, named, match, calls>>

\* the caller extracts the ZIP file it has just written
ExtractWritten ==
    /\ pc = "done" /\ op = "CompressToZip" /\ err = <<>>
    /\ op' = "ExtractZip"
    /\ pc' = "call"
    /\ UNCHANGED <<src, dest, all, fs, cancelled, adapter, idx, err, ret, named, match, calls, queue>>

\* ------------------------------------------------------------------------
\* Inputs
\* ------------------------------------------------------------------------

\* the longest archives, in entries
MaxEntries == 2

Small == Content(1, W(0, 3))

\* one byte more than the cap
Oversize == Content(2, W(maxExtractFileSizeGiB, 1))

\* exactly the cap
AtCap == Content(3, W(maxExtractFileSizeGiB, 0))

\* rw-r--r--, rwxr-xr-x, a tar mode that carries the S_IFDIR type bits
\* (0o40755), and rwxr-xr-x with the setuid bit of an fs.FileMode
Mode644 == 6 * 64 + 4 * 8 + 4
ModeTypeBits == 4 * 4096 + Perm755
ModeSetuidBits == 2^23 + Perm755

\* The entries a codec of the container can yield.  A 7z directory entry
\* carries fs.ModeDir in its mode; a tar entry may be neither file nor
\* directory.
Entries(container) ==
    LET dm(perm) == IF container = "7z" THEN W(ModeDir.hi, perm) ELSE W(0, perm)
    IN  { Entry(<<"a">>, "reg", W(0, Mode644), Small),
          Entry(<<"b">>, "reg", W(0, ModeSetuidBits), Oversize),
          Entry(<<"a", Sep, "b">>, "reg", W(0, Mode644), AtCap),
          Entry(<<"a", Sep, "b", Sep, "c">>, "reg", W(0, Mode644), Small),
          Entry(<<"..", Sep, "x">>, "reg", W(0, Mode644), Small),
          Entry(<<Sep, "e">>, "reg", W(0, Mode644), Small),
          Entry(<<"a", Sep, "..", Sep, "b">>, "reg", W(0, Mode644), Small),
          Entry(<<"a", Sep>>, "dir", dm(Perm755), NoData),
          Entry(<<"a", Sep, "b", Sep>>, "dir", dm(ModeTypeBits), NoData) }
    \cup (IF container = "tar"
          THEN { Entry(<<"a">>, "sym", W(0, Perm777), NoData),
                 Entry(<<"..", Sep, "x">>, "sym", W(0, Perm777), NoData),
                 Entry(<<".", Sep>>, "dir", W(0, Perm755), NoData) }
          ELSE {})

RECURSIVE SeqsUpTo(_, _)
SeqsUpTo(S, n) ==
    IF n = 0 THEN {<<>>}
    ELSE LET shorter == SeqsUpTo(S, n - 1)
         IN  shorter \cup {Append(q, x) : q \in {t \in shorter : Len(t) = n - 1}, x \in S}

Archives(container) == SeqsUpTo(Entries(container), MaxEntries)

\* files that are no archive: a leading signature or none, a length, and
\* six bytes at the tar magic offset
RawPrefixes ==
    { <<>>, ZipSignature, <<80, 75, 3, 5>>, SevenZipSignature,
      <<55, 122, 188, 175, 39, 29>>, <<31, 139, 8, 0>> }

RawLengths == {0, 3, 4, 5, 6, TarMagicOffset, TarMagicOffset + 5, TarMagicOffset + 6}

RawMagics == { Zeros(6), TarMagic \o <<0>>, TarMagic \o <<32>>, <<117, 115, 116, 97, 120, 0>> }

RawBytes(prefix, n, magic) ==
    [i \in 1..n |->
        IF i <= Len(prefix) THEN prefix[i]
        ELSE IF i > TarMagicOffset /\ i <= TarMagicOffset + Len(magic) THEN magic[i - TarMagicOffset]
        ELSE 0]

RawFiles ==
    { RawFile(RawBytes(p, n, m)) : p \in RawPrefixes, n \in RawLengths, m \in RawMagics }
    \cup { SrcFile(SrcDir \o <<"gone", ".zip">>, "missing", <<>>, "none", <<>>),
           SrcFile(SrcDir \o <<"folder">>, "dir", <<>>, "none", <<>>) }

\* the directories every run starts with
BaseFs ==
    LET keys == {<<Sep>>, <<Sep, "w">>, Cwd}
    IN  [k \in keys |-> DirNode(W(0, Perm755))]

\* destinations: absolute or relative, present (and empty) or absent, the
\* working directory itself and its parent
Dests ==
    { [dest |-> <<Sep, "d">>, present |-> TRUE], [dest |-> <<Sep, "d">>, present |-> FALSE],
      [dest |-> <<"d">>, present |-> TRUE],
      [dest |-> <<".">>, present |-> TRUE],      [dest |-> <<"..">>, present |-> TRUE] }

WithDest(f, d) == IF d.present /\ Abs(d.dest) \notin DOMAIN f THEN Put(f, Abs(d.dest), DirNode(W(0, Perm750))) ELSE f

\* source trees for CompressToZip: which of a, a/b, a/b/c, a/c and b exist,
\* and as what; every file has content of its own
TreeShapes ==
    { t \in [{"a", "ab", "abc", "ac", "b"} -> {"none", "dir", "file", "big"}] :
        /\ t["a"] # "big" /\ t["ab"] # "big" /\ t["abc"] # "big" /\ t["ac"] # "big"
        /\ t["b"] # "dir"
        /\ (t["ab"] # "none" => t["a"] = "dir")
        /\ (t["ac"] # "none" => t["a"] = "dir")
        /\ (t["abc"] # "none" => t["ab"] = "dir") }

TreePath(n) ==
    TreeRoot \o
    (CASE n = "a"   -> <<Sep, "a">>
       [] n = "ab"  -> <<Sep, "a", Sep, "b">>
       [] n = "abc" -> <<Sep, "a", Sep, "b", Sep, "c">>
       [] n = "ac"  -> <<Sep, "a", Sep, "c">>
       [] OTHER     -> <<Sep, "b">>)

TreeId(n) == CASE n = "a" -> 11 [] n = "ab" -> 12 [] n = "abc" -> 13 [] n = "ac" -> 14 [] OTHER -> 15

WithTree(f, t) ==
    LET names == {n \in DOMAIN t : t[n] # "none"}
        node(n) == CASE t[n] = "dir"  -> DirNode(W(0, Perm755))
                     [] t[n] = "file" -> FileNode(Content(TreeId(n), W(0, 3)), W(0, Mode644))
                     [] OTHER         -> FileNode(Content(TreeId(n), W(maxExtractFileSizeGiB, 1)), W(0, Mode644))
        keys == {TreePath(n) : n \in names} \cup {TreeRoot}
    IN  [k \in DOMAIN f \cup keys |->
            IF k \in DOMAIN f THEN f[k]
            ELSE IF k = TreeRoot THEN DirNode(W(0, Perm755))
            ELSE node(CHOOSE n \in names : TreePath(n) = k)]

\* archives of at most one entry: the leading bytes of a file depend on no more
Short(container) == SeqsUpTo(Entries(container), 1)

Absent == {d \in Dests : d.dest = <<Sep, "d">> /\ ~d.present}

Unwritten == SrcFile(ZipPath, "missing", <<>>, "none", <<>>)

\* entry names given to safeJoin: the root itself ("", ".", "./", "a/.."),
\* names below it, names above it and an absolute name
JoinNames ==
    { <<>>, <<".">>, <<".", Sep>>, <<"a", Sep, "..">>,
      <<"a">>, <<"a", Sep, "b">>, <<"a", Sep, "..", Sep, "b">>,
      <<"..">>, <<"..", Sep, "x">>, <<"..", Sep, "d">>, <<Sep, "e">> }

\* a file name as the argument of safeJoin
FileName(n) == SrcFile(n, "name", <<>>, "none", <<>>)

\* the state in which function o is called on s with destination d
Begin(o, s, d, a, f) ==
    /\ op = o
    /\ src = s
    /\ dest = d.dest
    /\ all = a
    /\ fs = WithDest(f, d)
    /\ cancelled \in BOOLEAN
    /\ pc = "call"
    /\ adapter = ""
    /\ idx = 1
    /\ err = <<>>
    /\ ret = <<>>
    /\ named = <<>>
    /\ match = FALSE
    /\ calls = <<>>
    /\ queue = <<>>

\* every adapter on the archives of its format and on files that are none,
\* the dispatcher and the detection functions on files of every kind,
\* CompressToZip on every source tree, and safeJoin on every name
Init ==
    \/ \E es \in Archives("zip"), d \in Dests, a \in BOOLEAN :
          Begin("ExtractZip", ZipFile(es), d, a, BaseFs)
    \/ \E es \in Archives("7z"), d \in Dests :
          Begin("Extract7z", SevenZipFile(es), d, FALSE, BaseFs)
    \/ \E es \in Archives("tar"), d \in Dests :
          Begin("ExtractTar", TarFile(es), d, FALSE, BaseFs)
    \/ \E es \in Archives("tar"), d \in Absent :
          Begin("ExtractTar", TarGzFile(es, <<".gz">>), d, FALSE, BaseFs)
    \/ \E es \in Short("tar"), d \in Absent :
          Begin("ExtractTar", TarGzFile(es, <<".tgz">>), d, FALSE, BaseFs)
    \/ \E o \in {"ExtractZip", "Extract7z", "ExtractTar"}, d \in Absent,
          s \in {r \in RawFiles : Len(r.bytes) \in {0, TarMagicOffset + 6} \/ r.kind # "file"} :
          Begin(o, s, d, FALSE, BaseFs)
    \/ \E o \in {"ExtractArchive", "IsZipFile", "Is7zFile", "IsTarFile"}, d \in Absent, a \in BOOLEAN,
          s \in RawFiles
                \cup { ZipFile(es) : es \in Short("zip") }
                \cup { SevenZipFile(es) : es \in Short("7z") }
                \cup { TarFile(es) : es \in Short("tar") }
                \cup { TarGzFile(es, <<x>>) : es \in Short("tar"), x \in {".gz", ".tgz"} } :
          Begin(o, s, d, a /\ o = "ExtractArchive", BaseFs)
    \/ \E t \in TreeShapes, d \in Dests, a \in BOOLEAN :
          Begin("CompressToZip", Unwritten, d, a, WithTree(BaseFs, t))
    \/ \E d \in Absent :
          Begin("CompressToZip", Unwritten, d, FALSE, BaseFs)
    \/ \E n \in JoinNames, d \in Dests :
          Begin("safeJoin", FileName(n), d, FALSE, BaseFs)

Next ==
    \/ Cancel
    \/ Sniff
    \/ SafeJoinCall
    \/ Dispatch
    \/ Direct
    \/ ZipStart
    \/ SevenZipStart
    \/ TarStart
    \/ ZipStep
    \/ ZipReturn
    \/ SevenZipStep
    \/ SevenZipReturn
    \/ TarStep
    \/ CompressStart
    \/ WalkVisit
    \/ WalkCopy
    \/ ExtractWritten

Spec == Init /\ [][Next]_vars

\* ------------------------------------------------------------------------
\* Properties
\* ------------------------------------------------------------------------

\* the destination root and the path an entry name is joined to, as the
\* kernel resolves them
DestRoot == Abs(dest)

JoinedKey(name) == Abs(Join(cleanDest, name))

\* every path a create call has created or opened for writing
AllMade == UNION {calls[i].made : i \in 1..Len(calls)}

\* the innermost error of a wrapped error, "" for nil
Cause(e) == IF e = <<>> THEN "" ELSE e[Len(e)]

\* an adapter runs on an archive of its own format
Extracting ==
    /\ adapter # ""
    /\ pc \in {"loop", "done"}
    /\ src.container = (IF adapter = "tar" /\ GzSuffix(src.path) THEN "targz" ELSE adapter)

\* the entries the loop has processed without error
Processed == 1..(idx - 1)

\* the index of the first entry whose joined path is not strictly below the root, 0 if none
FirstOutside ==
    LET I == {i \in 1..Len(src.entries) : ~Below(JoinedKey(src.entries[i].name), DestRoot)}
    IN  IF I = {} THEN 0 ELSE CHOOSE i \in I : \A j \in I : i <= j

\* C1: whatever the entry names, every path an adapter has created or opened
\* for writing lies strictly below the destination root (the root itself
\* apart, which the adapter creates when it is missing), and the first entry
\* whose joined path does not lie below the root ends the extraction with an
\* error before any later entry is processed.
C1_WritesStayBelowRoot ==
    Extracting =>
        /\ \A k \in AllMade : k = DestRoot \/ Below(k, DestRoot)
        /\ FirstOutside # 0 =>
              /\ idx <= FirstOutside
              /\ pc = "done" => err # <<>>

\* C1 for a destination given by name (not "." or ".." themselves)
C1_NamedDestination ==
    dest \notin {<<".">>, <<"..">>} => C1_WritesStayBelowRoot

\* ---- C2 ----

\* the name has a "../" segment or begins with the separator
Traversal(name) ==
    \/ Len(name) > 0 /\ name[1] = Sep
    \/ \E i \in 1..(Len(name) - 1) : name[i] = ".." /\ name[i + 1] = Sep

\* the join of the cleaned root and the name, cleaned, does not begin with
\* the cleaned root followed by a separator
Rejected(name) == ~HasPrefix(Join(cleanDest, name), cleanDest)

\* the destination is a directory given by name, not "." or ".."
NamedDest == dest \notin {<<".">>, <<"..">>}

\* the paths of the entries processed so far
ProcessedKeys == {JoinedKey(src.entries[i].name) : i \in Processed}

\* k is the path key or a directory above it (both absolute and clean)
AtOrAbove(k, key) == k = key \/ k = <<Sep>> \/ HasPrefix(key, k \o <<Sep>>)

\* every path created so far is the root, the path of a processed entry or a
\* directory above one
MadeForProcessed ==
    calls # <<>> =>
        LET root == DestRoot
            keys == ProcessedKeys
        IN  \A k \in AllMade : k = root \/ \E key \in keys : AtOrAbove(k, key)

\* C2 as stated: an entry whose name has a "../" segment or begins with "/"
\* is never extracted; the extraction fails at it with "illegal file path",
\* and no path outside the destination root is created.  (Stated where the
\* destination is a named directory, where C1's escape does not arise, so
\* that what is refuted is the rejection of such names.)
C2_TraversalNamesFail ==
    (Extracting /\ NamedDest) =>
        \A i \in 1..Len(src.entries) :
            Traversal(src.entries[i].name) =>
                /\ i \notin Processed
                /\ (pc = "done" /\ idx = i /\ ~cancelled) => Cause(err) = "illegal file path"
                /\ \A k \in AllMade : k = DestRoot \/ Below(k, DestRoot)

\* C2 as amended: an entry is rejected exactly when the cleaned join of the
\* cleaned root and its name does not begin with the cleaned root followed by
\* a separator.  Every entry processed passed that test; the extraction that
\* stopped at an entry (without cancellation) stopped with "illegal file
\* path" exactly when that entry fails the test; and nothing was created for
\* the entry the extraction stopped at or for any later one.
C2_RejectedIffJoinLeavesRoot ==
    Extracting =>
        /\ \A i \in Processed : ~Rejected(src.entries[i].name)
        /\ (pc = "done" /\ idx <= Len(src.entries) /\ ~cancelled) =>
              (Rejected(src.entries[idx].name) <=> Cause(err) = "illegal file path")
        /\ MadeForProcessed

\* "/e" was extracted to /d/e, then "../x" was rejected
C2_Witness ==
    /\ Extracting
    /\ dest = <<Sep, "d">>
    /\ pc = "done"
    /\ idx = 2
    /\ Len(src.entries) = 2
    /\ src.entries[1].name = <<Sep, "e">>
    /\ src.entries[2].name = <<"..", Sep, "x">>
    /\ <<Sep, "d", Sep, "e">> \in AllMade
    /\ fs[<<Sep, "d", Sep, "e">>].data = Small
    /\ Cause(err) = "illegal file path"
    /\ <<Sep, "x">> \notin DOMAIN fs

\* ---- C3 ----

\* C3: when the context is already cancelled as an adapter is about to
\* process entry idx, the adapter returns the cancellation error and an empty
\* path, creates and writes nothing, and leaves what the earlier entries
\* wrote as it is.
C3_CancelledBeforeEntry ==
    [][(cancelled /\ pc = "loop" /\ idx <= Len(src.entries)) =>
          /\ pc' = "done"
          /\ Cause(err') = "context canceled"
          /\ ret' = <<>>
          /\ fs' = fs
          /\ calls' = calls]_vars

\* cancelled after the first of two entries: the first file is on disk, the
\* second is not
C3_Witness ==
    /\ Extracting
    /\ cancelled
    /\ pc = "done"
    /\ Cause(err) = "context canceled"
    /\ ret = <<>>
    /\ idx = 2
    /\ Len(src.entries) = 2
    /\ src.entries[1].type = "reg"
    /\ JoinedKey(src.entries[1].name) \in AllMade
    /\ fs[JoinedKey(src.entries[1].name)].data.id = src.entries[1].data.id
    /\ ~Rejected(src.entries[2].name)
    /\ JoinedKey(src.entries[2].name) \notin DOMAIN fs

\* ---- C4 ----

\* the entry's path inside the archive, as a path below "/"
ArchiveKey(e) == Clean(<<Sep>> \o e.name)

\* a well-formed archive of files and directories: plain relative names, no
\* file above the cap, no two entries for one path, no file that another
\* entry needs as a directory
WellFormedArchive ==
    /\ \A i \in 1..Len(src.entries) :
          LET e == src.entries[i]
          IN  /\ e.type \in {"reg", "dir"}
              /\ ~Traversal(e.name)
              /\ \A j \in 1..Len(e.name) : e.name[j] \notin {".", ".."}
              /\ e.type = "reg" => ~WLess(maxExtractFileSize, e.data.size)
    /\ \A i, j \in 1..Len(src.entries) :
          i # j => /\ ArchiveKey(src.entries[i]) # ArchiveKey(src.entries[j])
                   /\ src.entries[i].type = "reg" =>
                         ArchiveKey(src.entries[i]) \notin Ancestors(ArchiveKey(src.entries[j]))

\* the paths below the destination root
Extracted == {k \in DOMAIN fs : Below(k, DestRoot)}

\* the archive's tree under the root: every entry and the directories above it
ArchiveTree ==
    UNION { {k \in {JoinedKey(src.entries[i].name)} \cup Ancestors(JoinedKey(src.entries[i].name)) :
                 Below(k, DestRoot)} : i \in 1..Len(src.entries) }

\* the destination existed before the call and was empty
DestWasEmpty ==
    /\ DestRoot \notin AllMade
    /\ \A k \in Extracted : k \in AllMade

\* C4: a well-formed archive whose files are all under the cap, extracted
\* into an existing empty destination, extracts without error and leaves
\* under the destination exactly the archive's tree, every file with the
\* bytes of its entry, at any nesting depth and whether or not directory
\* entries precede the files inside them.  (ExtractZip's CreateDir is read as
\* creating missing ancestors; the destination is a named directory.)
C4_WellFormedArchiveExtracts ==
    ( /\ Extracting
      /\ NamedDest
      /\ adapter = "zip" => all
      /\ WellFormedArchive
      /\ DestWasEmpty
      /\ ~cancelled
      /\ pc = "done" ) =>
        /\ err = <<>>
        /\ Extracted = ArchiveTree
        /\ \A i \in 1..Len(src.entries) :
              LET e == src.entries[i]
                  k == JoinedKey(e.name)
              IN  /\ k \in DOMAIN fs
                  /\ fs[k].kind = (IF e.type = "dir" THEN "dir" ELSE "file")
                  /\ e.type = "reg" => fs[k].data = e.data
                  /\ \A a \in Ancestors(k) : a \in DOMAIN fs /\ fs[a].kind = "dir"

\* C4 holds of ExtractZip (CreateDir read as creating missing ancestors)
C4_ZipOnly == adapter = "zip" => C4_WellFormedArchiveExtracts

\* ---- C5 ----

\* C5: ExtractArchive on a well-formed gzip-compressed TAR file (named .gz or
\* .tgz, holding an entry, the context not cancelled) selects the TAR adapter
\* and does not fail with "archive is not in a supported format".
C5_GzipTarDispatched ==
    (op = "ExtractArchive" /\ src.container = "targz" /\ Len(src.entries) > 0
        /\ ~cancelled /\ pc = "done") =>
        /\ adapter = "tar"
        /\ Cause(err) # "archive is not in a supported format"

\* ---- C6 ----

\* C6: ExtractArchive runs the adapter of the first classifier that matches,
\* in the order Is7zFile, IsTarFile, IsZipFile.  When none matches it returns
\* "archive is not in a supported format" naming the source, with an empty
\* path, no adapter run, no create call made, the file system as it was and
\* the destination still absent.
C6_FirstMatchOrUnsupported ==
    (op = "ExtractArchive" /\ pc # "call") =>
        /\ adapter = "7z" <=> Is7zFile(src)
        /\ adapter = "tar" <=> (~Is7zFile(src) /\ IsTarFile(src))
        /\ adapter = "zip" <=> (~Is7zFile(src) /\ ~IsTarFile(src) /\ IsZipFile(src))
        /\ (~Is7zFile(src) /\ ~IsTarFile(src) /\ ~IsZipFile(src)) =>
              /\ adapter = ""
              /\ pc = "done"
              /\ err = <<"archive is not in a supported format">>
              /\ named = src.path
              /\ ret = <<>>
              /\ calls = <<>>
              /\ fs = BaseFs
              /\ DestRoot \notin DOMAIN fs

\* a 263-byte file that begins 50 4B 03 05 was refused; nothing was written
C6_Witness ==
    /\ op = "ExtractArchive"
    /\ pc = "done"
    /\ src.kind = "file"
    /\ Len(src.bytes) = TarMagicOffset + 6
    /\ SubSeq(src.bytes, 1, 4) = <<80, 75, 3, 5>>
    /\ adapter = ""
    /\ err = <<"archive is not in a supported format">>
    /\ named = src.path
    /\ calls = <<>>
    /\ DestRoot \notin DOMAIN fs

\* ---- C7 ----

\* entry i was processed, is a file, and no later processed file entry wrote
\* the same path
LastWrite(i) ==
    /\ src.entries[i].type = "reg"
    /\ \A j \in Processed :
          (j > i /\ src.entries[j].type = "reg") =>
              JoinedKey(src.entries[j].name) # JoinedKey(src.entries[i].name)

\* what the running adapter's loop body does with entry e in this state
EntryResult(e) ==
    CASE adapter = "zip" -> ZipEntry(fs, cleanDest, e, all)
      [] adapter = "7z"  -> SevenZipEntry(fs, cleanDest, e)
      [] OTHER           -> TarEntry(fs, cleanDest, e)

\* C7: the file written for an entry holds the first min(length, cap) bytes
\* of the entry's content: a longer entry is cut at exactly the cap, an entry
\* of at most the cap is written in full.  The length of the content never
\* decides whether the entry is an error: the loop body ends for the entry as
\* it would for the same entry with three bytes of content, so the entries
\* after a long one are processed.
C7_WrittenIsMinOfLengthAndCap ==
    Extracting =>
        /\ \A i \in Processed :
              LastWrite(i) =>
                  LET k == JoinedKey(src.entries[i].name)
                      c == src.entries[i].data
                  IN  /\ k \in DOMAIN fs
                      /\ fs[k].kind = "file"
                      /\ fs[k].data.id = c.id
                      /\ fs[k].data.size = WMin(c.size, W(maxExtractFileSizeGiB, 0))
        /\ (pc = "loop" /\ idx <= Len(src.entries) /\ src.entries[idx].type = "reg"
               /\ src.entries[idx].data # Small) =>
              EntryResult(src.entries[idx]).err
                  = EntryResult([src.entries[idx] EXCEPT !.data = Small]).err

\* a file one byte over the cap was cut to the cap, the file after it was
\* written in full, and the adapter returned without error
C7_Witness ==
    /\ Extracting
    /\ pc = "done"
    /\ err = <<>>
    /\ idx = 3
    /\ Len(src.entries) = 2
    /\ src.entries[1].data = Oversize
    /\ src.entries[2].data = Small
    /\ src.entries[2].type = "reg"
    /\ fs[JoinedKey(src.entries[1].name)].data = Content(Oversize.id, W(maxExtractFileSizeGiB, 0))
    /\ fs[JoinedKey(src.entries[2].name)].data = Small

\* ---- C8 ----

\* the paths below the directory CompressToZip was given
SourceTree == {k \in DOMAIN fs : Below(k, TreeRoot)}

\* ExtractZip has returned from extracting the ZIP file CompressToZip wrote
RoundTrip == op = "ExtractZip" /\ src.path = ZipPath /\ pc = "done"

\* no file of the source tree is longer than the cap
SourceUnderCap ==
    \A k \in SourceTree : fs[k].kind = "file" => ~WLess(maxExtractFileSize, fs[k].data.size)

\* C8: CompressToZip of a directory tree succeeds, and ExtractZip of the ZIP
\* file it wrote, into an empty destination, succeeds and leaves under the
\* destination exactly the relative paths of the tree (the root apart),
\* directories as directories and every file with the bytes of the original.
\* (Stated for trees whose files are within the cap of C7, which come back
\* whole.)
C8_CompressExtractRoundTrip ==
    /\ (op = "CompressToZip" /\ pc = "done" /\ ~cancelled /\ TreeRoot \in DOMAIN fs) => err = <<>>
    /\ (RoundTrip /\ ~cancelled /\ SourceUnderCap /\ \A k \in Extracted : k \in AllMade) =>
          /\ err = <<>>
          /\ {Rel(DestRoot, k) : k \in Extracted} = {Rel(TreeRoot, k) : k \in SourceTree}
          /\ \A k \in SourceTree :
                LET d == DestRoot \o <<Sep>> \o Rel(TreeRoot, k)
                IN  /\ d \in DOMAIN fs
                    /\ fs[d].kind = fs[k].kind
                    /\ fs[k].kind = "file" => fs[d].data = fs[k].data

\* C8 holds when the destination is a named directory
C8_NamedDestination == NamedDest => C8_CompressExtractRoundTrip

\* ---- C9 ----

\* the mode lies in [0, 0o777]
InRange(m) == m.hi = 0 /\ m.lo >= 0 /\ m.lo <= 7 * 64 + 7 * 8 + 7

\* C9: every mode that reaches a create call from an archive entry is that
\* entry's mode as sanitizeFileMode leaves it: the mode itself when it lies
\* in [0, 0o777], 0o755 otherwise; for directory entries as for file entries.
C9_EntryModesSanitized ==
    \A c \in 1..Len(calls) :
        calls[c].entryMode =>
            \E i \in 1..Len(src.entries) :
                /\ calls[c].path = JoinedKey(src.entries[i].name)
                /\ calls[c].mode = IF InRange(src.entries[i].mode)
                                   THEN src.entries[i].mode
                                   ELSE W(0, 7 * 64 + 5 * 8 + 5)

\* C9 holds of ExtractZip and ExtractTar, and of Extract7z's file entries
C9_AllButSevenZipDirectories ==
    \A c \in 1..Len(calls) :
        (calls[c].entryMode /\ ~(adapter = "7z" /\ calls[c].fn = "Mkdir")) => InRange(calls[c].mode)

\* ---- C10 ----

\* the file can be read and holds the bytes sig from offset off on, with
\* need bytes in all from that offset
HoldsAt(file, off, sig, need) ==
    /\ file.kind = "file"
    /\ Len(file.bytes) >= off + need
    /\ SubSeq(file.bytes, off + 1, off + Len(sig)) = sig

\* C10: IsZipFile is true exactly of a readable file whose first 4 bytes are
\* 50 4B 03 04, Is7zFile of one whose first 6 bytes are 37 7A BC AF 27 1C,
\* IsTarFile of one that holds 6 bytes from offset 257 on (263 bytes in all,
\* the header length its read requires) of which the first five are "ustar".
\* For a missing or unreadable file and for a shorter file each is false, and
\* none reports an error.
C10_SignatureChecks ==
    (op \in {"IsZipFile", "Is7zFile", "IsTarFile"} /\ pc = "done") =>
        /\ op = "IsZipFile" => (match <=> HoldsAt(src, 0, <<80, 75, 3, 4>>, 4))
        /\ op = "Is7zFile" => (match <=> HoldsAt(src, 0, <<55, 122, 188, 175, 39, 28>>, 6))
        /\ op = "IsTarFile" => (match <=> HoldsAt(src, 257, <<117, 115, 116, 97, 114>>, 6))
        /\ src.kind # "file" => ~match
        /\ err = <<>>

\* IsTarFile returned false for a 262-byte file that ends with "ustar" at offset 257
C10_Witness ==
    /\ op = "IsTarFile"
    /\ pc = "done"
    /\ src.kind = "file"
    /\ Len(src.bytes) = 262
    /\ SubSeq(src.bytes, 258, 262) = <<117, 115, 116, 97, 114>>
    /\ ~match

\* IsTarFile returned true for a 263-byte file with "ustar" and a blank at offset 257
C10_Matched ==
    /\ op = "IsTarFile"
    /\ pc = "done"
    /\ Len(src.bytes) = 263
    /\ SubSeq(src.bytes, 258, 263) = <<117, 115, 116, 97, 114, 32>>
    /\ match

\* ---- C11 ----

\* the classifiers that return true of the source
Matching ==
    {c \in {"7z", "tar", "zip"} :
        CASE c = "7z"  -> Is7zFile(src)
          [] c = "tar" -> IsTarFile(src)
          [] OTHER     -> IsZipFile(src)}

\* C11 as stated: at most one of Is7zFile, IsTarFile and IsZipFile is true of
\* the file ExtractArchive was given, so that the adapter it selected is the
\* only classifier that matches.
C11_MutuallyExclusive ==
    (op = "ExtractArchive" /\ pc # "call") =>
        /\ Cardinality(Matching) <= 1
        /\ adapter # "" => Matching = {adapter}

\* C11 as amended: Is7zFile and IsZipFile are never both true (they compare
\* the same leading bytes with different signatures), but IsTarFile, which
\* looks at offset 257, can be true together with either.  Then the order of
\* the switch decides: a file that is both 7z and TAR goes to Extract7z, a
\* file that is both TAR and ZIP goes to ExtractTar.
C11_OrderDecidesOverlap ==
    (op = "ExtractArchive" /\ pc # "call") =>
        /\ ~({"7z", "zip"} \subseteq Matching)
        /\ {"7z", "tar"} \subseteq Matching => adapter = "7z"
        /\ {"tar", "zip"} \subseteq Matching => adapter = "tar"
        /\ Cardinality(Matching) = 1 => Matching = {adapter}

\* a file with the 7z signature at 0 and "ustar" at 257 was given to Extract7z
C11_Witness ==
    /\ op = "ExtractArchive"
    /\ pc # "call"
    /\ src.kind = "file"
    /\ Len(src.bytes) = 263
    /\ SubSeq(src.bytes, 1, 6) = <<55, 122, 188, 175, 39, 28>>
    /\ SubSeq(src.bytes, 258, 262) = <<117, 115, 116, 97, 114>>
    /\ Matching = {"7z", "tar"}
    /\ adapter = "7z"

\* a file with the ZIP signature at 0 and "ustar" at 257 was given to ExtractTar
C11_ZipAndTar ==
    /\ op = "ExtractArchive"
    /\ pc # "call"
    /\ Matching = {"tar", "zip"}
    /\ adapter = "tar"

\* ---- C12 ----

\* ExtractTar is about to process entry idx, whose type flag is neither
\* directory nor regular file, and the context is not cancelled before the step
AtOtherType ==
    /\ pc = "loop" /\ adapter = "tar"
    /\ TarReads(src)
    /\ ~cancelled
    /\ idx <= Len(src.entries)
    /\ src.entries[idx].type \notin {"dir", "reg"}

\* the step skips the entry: nothing is created or written, no error is
\* returned, and the loop goes on with the next entry
Skipped ==
    /\ fs' = fs
    /\ calls' = calls
    /\ pc' = "loop"
    /\ err' = <<>>
    /\ idx' = idx + 1

\* C12 as stated: an entry of another type is skipped whatever its name: it
\* creates nothing, never makes ExtractTar return an error, and the entries
\* after it are processed.  (Stated where the destination is a named
\* directory.)
C12_OtherTypesNeverFail ==
    [][(AtOtherType /\ NamedDest /\ ~cancelled') => Skipped]_vars

\* C12 as amended: the name of an entry of another type goes through
\* safeJoin like any other name.  When the name passes, the entry is skipped:
\* nothing is created, no error is returned, the next entry is processed.
\* When the name is rejected, ExtractTar returns "illegal file path" at that
\* entry, having created nothing for it.
C12_OtherTypesSkippedIfNameLegal ==
    [][(AtOtherType /\ ~cancelled') =>
          IF Rejected(src.entries[idx].name)
          THEN /\ pc' = "done"
               /\ Cause(err') = "illegal file path"
               /\ ret' = <<>>
               /\ fs' = fs
               /\ calls' = calls
          ELSE Skipped]_vars

\* the symlink entry "a" was skipped and the file "b" after it was extracted
C12_Witness ==
    /\ Extracting
    /\ adapter = "tar"
    /\ dest = <<Sep, "d">>
    /\ pc = "done"
    /\ err = <<>>
    /\ idx = 3
    /\ Len(src.entries) = 2
    /\ src.entries[1].type = "sym"
    /\ src.entries[1].name = <<"a">>
    /\ src.entries[2].type = "reg"
    /\ src.entries[2].name = <<"b">>
    /\ <<Sep, "d", Sep, "a">> \notin DOMAIN fs
    /\ <<Sep, "d", Sep, "b">> \in AllMade

\* the symlink entry "../x" ended the extraction with "illegal file path"
C12_RejectedName ==
    /\ Extracting
    /\ adapter = "tar"
    /\ dest = <<Sep, "d">>
    /\ pc = "done"
    /\ idx = 1
    /\ Len(src.entries) = 2
    /\ err # <<>>
    /\ src.entries[1].type = "sym"
    /\ src.entries[1].name = <<"..", Sep, "x">>
    /\ Cause(err) = "illegal file path"
    /\ ~cancelled

\* ---- C13 ----

\* the name resolves to the destination root itself
ResolvesToRoot(name) == JoinedKey(name) = DestRoot

\* an adapter is about to pass the name of entry idx to safeJoin
AtEntry ==
    /\ Extracting
    /\ pc = "loop"
    /\ ~cancelled
    /\ idx <= Len(src.entries)
    /\ adapter = "tar" => TarReads(src)

\* the step ends the extraction at entry idx with "illegal file path",
\* creating nothing
FailsAtEntry ==
    /\ pc' = "done"
    /\ Cause(err') = "illegal file path"
    /\ ret' = <<>>
    /\ idx' = idx
    /\ fs' = fs
    /\ calls' = calls

\* C13: safeJoin accepts only strict descendants of the destination root.  A
\* call of safeJoin that returns no error returns a path strictly below the
\* root, and a name that resolves to the root itself ("", ".", "./", "a/..")
\* returns "illegal file path"; in an adapter, an entry that is accepted lies
\* strictly below the root, and an entry that resolves to the root makes the
\* extraction fail at that entry.
C13_OnlyStrictDescendantsAccepted ==
    [][/\ (pc = "call" /\ pc' = "done" /\ op = "safeJoin") =>
             /\ err' = <<>> => Below(Abs(ret'), DestRoot)
             /\ ResolvesToRoot(src.path) => err' = <<"illegal file path">> /\ ret' = <<>>
       /\ (AtEntry /\ ~cancelled') =>
             /\ idx' = idx + 1 => Below(JoinedKey(src.entries[idx].name), DestRoot)
             /\ ResolvesToRoot(src.entries[idx].name) => FailsAtEntry]_vars

\* the part of C13 about the root itself, for every destination: a name that
\* resolves to the destination root is rejected by safeJoin with "illegal
\* file path", and an archive entry with such a name ends the extraction at
\* that entry
C13_RootNamesRejected ==
    [][/\ (pc = "call" /\ pc' = "done" /\ op = "safeJoin" /\ ResolvesToRoot(src.path)) =>
             err' = <<"illegal file path">> /\ ret' = <<>>
       /\ (AtEntry /\ ~cancelled' /\ ResolvesToRoot(src.entries[idx].name)) =>
             FailsAtEntry]_vars

\* the first part of C13 where the destination is a named directory: what
\* safeJoin accepts lies strictly below the root
C13_NamedDestination ==
    [][NamedDest =>
          /\ (pc = "call" /\ pc' = "done" /\ op = "safeJoin" /\ err' = <<>>) => Below(Abs(ret'), DestRoot)
          /\ (AtEntry /\ ~cancelled' /\ idx' = idx + 1) =>
                Below(JoinedKey(src.entries[idx].name), DestRoot)]_vars

\* safeJoin("..", "../x") returned "../../x" and no error
C13_AcceptedAboveRoot ==
    /\ op = "safeJoin"
    /\ pc = "done"
    /\ dest = <<"..">>
    /\ src.path = <<"..", Sep, "x">>
    /\ err = <<>>
    /\ ret = <<"..", Sep, "..", Sep, "x">>
    /\ ~Below(Abs(ret), DestRoot)

\* a TAR whose first entry is the directory "./" failed at that entry
C13_RootEntryFails ==
    /\ Extracting
    /\ adapter = "tar"
    /\ dest = <<Sep, "d">>
    /\ pc = "done"
    /\ ~cancelled
    /\ idx = 1
    /\ Len(src.entries) = 2
    /\ src.entries[1].name = <<".", Sep>>
    /\ err # <<>>
    /\ Cause(err) = "illegal file path"
    /\ calls = <<>> \/ \A i \in 1..Len(calls) : calls[i].made \subseteq {DestRoot}

====
